---- MODULE Spec2Model ----
(***************************************************************************)
(* Model of the linkinator crawl engine (LinkChecker.check / crawl /       *)
(* shouldRetryAfter), the link extractor (getLinks / normalizeLink) and    *)
(* the work queue the crawl runs on.                                       *)
(*                                                                         *)
(* URL strings are sequences of tokens, e.g. <<"http://", "h", "/", "p">>, *)
(* so that parsing, normalisation (trailing slash, fragment removal) and   *)
(* the string-level startsWith test are computed, not assumed.             *)
(* One unit of model time stands for 1000 ms.                              *)
(***************************************************************************)
EXTENDS Integers, Sequences, FiniteSets, TLC

\* ---------------------------------------------------------------- bounds
MaxTime == 2        \* Date.now() ranges over 1..MaxTime
MaxOdd  == 1        \* requests of a run that throw or are answered other than 200 text/html
MaxOddRetry == 2    \* the same, for the runs whose pages give no child task (RetryConfigs)
MaxItems == 3       \* URLs enqueued to one UrlChecker
MaxSkip == 1        \* the longest array given as the skip flag

\* ------------------------------------------------------ program constants
DefaultConcurrency == 100
Undefined == -1     \* a number field that is absent (JS undefined)
NaN == -2           \* the JS number NaN
Pending == -3       \* the outcome of a request that is awaited
Threw == -4         \* the outcome of a request that threw

OK      == "OK"
BROKEN  == "BROKEN"
SKIPPED == "SKIPPED"

\* ------------------------------------------------------------ URL strings
NoUrl == <<>>       \* undefined URL / failed parse
HTTP  == "http://"

RootRaw == <<HTTP, "h">>
RootUrl == <<HTTP, "h", "/">>
PUrl    == <<HTTP, "h", "/", "p">>
QUrl    == <<HTTP, "h", "/", "q">>
RUrl    == <<HTTP, "h", "/", "r">>
XUrl    == <<HTTP, "g", "/">>
YUrl    == <<HTTP, "g", "/", "y">>
KRaw    == <<HTTP, "k">>
KUrl    == <<HTTP, "k", "/">>
KRUrl   == <<HTTP, "k", "/", "r">>
KGUrl   == <<HTTP, "k", ".g", "/">>     \* http://k.g/
MailUrl == <<"mailto:", "x">>
BadLink == <<HTTP, "[">>

IndexOf(s, tok) ==
  IF \E i \in 1..Len(s) : s[i] = tok
    THEN CHOOSE i \in 1..Len(s) : s[i] = tok /\ \A j \in 1..(i-1) : s[j] # tok
    ELSE 0

StartsWith(s, prefix) ==
  /\ Len(prefix) <= Len(s)
  /\ \A i \in 1..Len(prefix) : s[i] = prefix[i]

IsHttpScheme(tok) == tok \in {"http://", "https://"}

\* index of the first token after the host of an http(s) URL string
PathStart(s) ==
  IF \E i \in 2..Len(s) : s[i] \in {"/", "#"}
    THEN CHOOSE i \in 2..Len(s) : s[i] \in {"/", "#"} /\ \A j \in 2..(i-1) : s[j] \notin {"/", "#"}
    ELSE Len(s) + 1

\* new URL(link, base).href ; NoUrl when the constructor throws
NewURL(link, base) ==
  IF link = <<>> THEN base
  ELSE IF IsHttpScheme(link[1]) THEN
    LET ps == PathStart(link) IN
    IF ps = 2 \/ (\E i \in 2..(ps-1) : link[i] = "[") THEN NoUrl
    ELSE IF ps <= Len(link) /\ link[ps] = "/" THEN link
    ELSE SubSeq(link, 1, ps-1) \o <<"/">> \o SubSeq(link, ps, Len(link))
  ELSE IF link[1] = "mailto:" THEN link
  ELSE IF base = NoUrl \/ ~IsHttpScheme(base[1]) THEN NoUrl
  ELSE IF link[1] = "/" THEN SubSeq(base, 1, PathStart(base)-1) \o link
  ELSE IF link[1] = "#" THEN
    (IF IndexOf(base, "#") = 0 THEN base ELSE SubSeq(base, 1, IndexOf(base, "#")-1)) \o link
  ELSE NoUrl

\* url.protocol
Protocol(u) ==
  IF u[1] = "http://" THEN "http:"
  ELSE IF u[1] = "https://" THEN "https:"
  ELSE u[1]

\* url.host ("" for a URL without authority)
Host(u) == IF IsHttpScheme(u[1]) THEN SubSeq(u, 2, PathStart(u)-1) ELSE <<>>

ClearHashMutant(u) == u
\* slink.hash = ''
ClearHash(u) == IF IndexOf(u, "#") = 0 THEN u ELSE SubSeq(u, 1, IndexOf(u, "#")-1)

\* -------------------------------------------------------- link extraction
linksAttrKeys ==
  <<"background", "cite", "data", "href", "icon", "longdesc", "manifest",
    "poster", "pluginspage", "pluginurl", "src">>

linksAttr(attr) ==
  CASE attr = "background"  -> {"body"}
    [] attr = "cite"        -> {"blockquote", "del", "ins", "q"}
    [] attr = "data"        -> {"object"}
    [] attr = "href"        -> {"a", "area", "embed", "link"}
    [] attr = "icon"        -> {"command"}
    [] attr = "longdesc"    -> {"frame", "iframe"}
    [] attr = "manifest"    -> {"html"}
    [] attr = "poster"      -> {"video"}
    [] attr = "pluginspage" -> {"embed"}
    [] attr = "pluginurl"   -> {"embed"}
    [] attr = "src"         -> {"audio", "embed", "frame", "iframe", "img", "input",
                                "script", "source", "track", "video"}

normalizeLink(link, baseUrl) ==
  LET slink == NewURL(link, baseUrl) IN
  IF slink = NoUrl THEN link ELSE ClearHash(slink)

Matching(source, attr) ==
  SelectSeq(source, LAMBDA e : e.attr = attr /\ e.tag \in linksAttr(attr))

RECURSIVE CollectLinks(_, _)
CollectLinks(source, k) ==
  IF k > Len(linksAttrKeys) THEN <<>>
  ELSE LET els == Matching(source, linksAttrKeys[k]) IN
       [i \in 1..Len(els) |-> els[i].value] \o CollectLinks(source, k + 1)

\* a document is the sequence of its elements in document order
getLinks(source, baseUrl) ==
  LET links == SelectSeq(CollectLinks(source, 1), LAMBDA l : l # <<>>) IN
  [i \in 1..Len(links) |-> normalizeLink(links[i], baseUrl)]

\* what crawl reads off one extracted link: the text, and the URL object
\* when the text parses
ParsedLinks(source, baseUrl) ==
  LET ls == getLinks(source, baseUrl) IN
  [i \in 1..Len(ls) |->
     [link |-> ls[i], url |-> IF NewURL(ls[i], NoUrl) = NoUrl THEN NoUrl ELSE ls[i]]]

\* ---------------------------------------------------------------- the web
El(tag, attr, value) == [tag |-> tag, attr |-> attr, value |-> value]

Body(u) ==
  IF u = RootUrl THEN
    << El("img", "src", PUrl \o <<"#", "f">>),
       El("a", "href", <<"/", "p">>),
       El("a", "href", MailUrl),
       El("a", "href", XUrl),
       El("a", "href", BadLink) >>
  ELSE IF u = PUrl THEN
    << El("a", "href", QUrl), El("a", "href", RootUrl) >>
  ELSE IF u = XUrl THEN
    << El("a", "href", YUrl), El("a", "href", PUrl) >>
  ELSE IF u = KUrl THEN
    << El("img", "src", KGUrl), El("a", "href", KRUrl) >>
  ELSE << >>

\* ------------------------------------------------------------------ state
VARIABLES
  options,     \* CheckOptions given to check()
  phase,       \* "init" before check(), "starting" (await startWebServer), "running",
               \* "returned", "rejected"
  now,         \* Date.now()
  opts,        \* opts[i]: the CrawlOptions object of task i (url, crawl, parent, rootPath)
  pc,          \* pc[i]: where task i stands
  res,         \* res[i]: local variable res of the running crawl of task i
  failures,    \* failures[i]: local variable failures of the running crawl of task i
  queue,       \* runnable tasks of the Queue, FIFO
  delayed,     \* tasks added to the Queue with a delay: <<task, due time>>
  results,     \* the results array
  events,      \* what the EventEmitter has emitted, in order
  cache,       \* initCache, the set of visited hrefs
  delayCache,  \* host -> time before which the host is not to be probed
  ret,         \* the value check() resolved with
  server,      \* the local web server of check(): "none", "starting", "listening",
               \* "destroyed"
  origin,      \* history: origin[k] is the task that pushed results[k]
  requests,    \* history: the HTTP requests issued, [task, step, method]
  attempts,    \* history: attempts[i] counts the first requests task i issued
  fnAnswers,   \* what the skip predicate has answered, per href
  extracted,   \* history: the tasks that ran getLinks
  gated,       \* history: the tasks the delay gate has put back into the queue
  heldStart,   \* history: the tasks that began a run of crawl while their host was delayed
  lastWrite,   \* history: the last pass of shouldRetryAfter through its delayCache write
  ladder,      \* history: ladder[i] is the requests of the last attempt of task i, with outcomes
  odd,         \* history: requests that threw or were answered other than 200 text/html
  linkQueue,   \* UrlChecker: the items of this.linkQueue, in the order they were enqueued
  maxSockets,  \* UrlChecker: options.maxSockets
  handlerCalls \* UrlChecker history: the calls of checkUrl, handlers.link, done and handlers.end

crawlVars == <<options, phase, now, opts, pc, res, failures, queue, delayed, results,
          events, cache, delayCache, ret, server, origin, requests, attempts, fnAnswers,
          extracted, gated, heldStart, lastWrite, ladder, odd>>
ucVars == <<linkQueue, maxSockets, handlerCalls>>

VARIABLES
  flags,       \* getConfig: the flags of the command line
  configFile,  \* getConfig: the config file on disk
  config,      \* getConfig: the object it resolves with
  cfgPhase,    \* getConfig: "idle", "called", "returned", "rejected"
  fileRead     \* history: parseConfigFile was called

cfgVars == <<flags, configFile, config, cfgPhase, fileRead>>
vars == <<crawlVars, ucVars, cfgVars>>

NoRes == [status |-> Undefined, contentType |-> "", retryAfter |-> [kind |-> "none", v |-> 0]]
NoRet == [links |-> <<>>, passed |-> FALSE, returned |-> FALSE]
NoFile == [ok |-> FALSE, map |-> <<>>]
NoWrite == [host |-> <<>>, had |-> FALSE, before |-> Undefined, proposed |-> Undefined,
            after |-> Undefined]

\* the part of the state a crawl step works on, as one record
Cur ==
  [opts |-> opts, pc |-> pc, res |-> res, failures |-> failures, queue |-> queue,
   delayed |-> delayed, results |-> results, events |-> events, cache |-> cache,
   delayCache |-> delayCache, origin |-> origin, requests |-> requests,
   attempts |-> attempts, extracted |-> extracted, gated |-> gated,
   heldStart |-> heldStart, lastWrite |-> lastWrite, ladder |-> ladder, odd |-> odd]

Becomes(st) ==
  /\ opts' = st.opts /\ pc' = st.pc /\ res' = st.res /\ failures' = st.failures
  /\ queue' = st.queue /\ delayed' = st.delayed /\ results' = st.results
  /\ events' = st.events /\ cache' = st.cache /\ delayCache' = st.delayCache
  /\ origin' = st.origin /\ requests' = st.requests /\ attempts' = st.attempts
  /\ extracted' = st.extracted /\ gated' = st.gated /\ heldStart' = st.heldStart
  /\ lastWrite' = st.lastWrite /\ ladder' = st.ladder /\ odd' = st.odd

\* ----------------------------------------------------------- the options
File    == <<"f">>          \* a path of the file system; the file exists
NoMatch == <<"*.none">>     \* a glob that matches no file
Localhost == <<HTTP, "localhost", "/">>     \* `http://localhost:${port}/`

\* path.startsWith('http')
IsHttpPath(p) == p # <<>> /\ IsHttpScheme(p[1])
HasServerRoot(o) == "serverRoot" \in DOMAIN o
\* await glob(fullPath), with the server root taken off again
Glob(p) == IF p = File THEN <<p>> ELSE <<>>

RECURSIVE Expand(_)
Expand(paths) == IF paths = <<>> THEN <<>> ELSE Glob(Head(paths)) \o Expand(Tail(paths))

OptionsErrorMutant(o) ==
  IF Len(o.path) = 0 THEN "empty"
  ELSE IF \E i \in 1..Len(o.path) : IsHttpPath(o.path[i]) # IsHttpPath(o.path[1]) THEN "mixed"
  ELSE IF ~IsHttpPath(o.path[1]) /\ (\E i \in 1..Len(o.path) : Glob(o.path[i]) = <<>>) THEN "glob"
  ELSE "none"
\* processOptions: the error it throws, "none" when it returns
OptionsError(o) ==
  IF Len(o.path) = 0 THEN "empty"
  ELSE IF \E i \in 1..Len(o.path) : IsHttpPath(o.path[i]) # IsHttpPath(o.path[1]) THEN "mixed"
  ELSE IF HasServerRoot(o) /\ IsHttpPath(o.path[1]) THEN "serverRoot"
  ELSE IF ~IsHttpPath(o.path[1]) /\ (\E i \in 1..Len(o.path) : Glob(o.path[i]) = <<>>) THEN "glob"
  ELSE "none"

\* processOptions: options.path as it returns it
processOptions(o) ==
  IF IsHttpPath(o.path[1]) THEN o.path
  ELSE LET paths == Expand(o.path) IN
       IF ~HasServerRoot(o) /\ Len(paths) = 1
         THEN << <<"/", paths[1][Len(paths[1])]>> >>      \* path.sep + the last part
         ELSE paths

\* check: does it start the local web server
StartsServer(o) == ~(\E i \in 1..Len(processOptions(o)) : IsHttpPath(processOptions(o)[i]))

\* check: options.path when the tasks are created
CheckPaths(o) ==
  LET ps == processOptions(o) IN
  IF ~StartsServer(o) THEN ps
  ELSE [i \in 1..Len(ps) |->
          Localhost \o (IF ps[i][1] = "/" THEN Tail(ps[i]) ELSE ps[i])]

\* check: what the loop over options.path creates
Enqueued(path) ==
  LET n == Len(path) IN
  [opts     |-> [i \in 1..n |-> [url |-> NewURL(path[i], NoUrl), crawl |-> TRUE,
                                 parent |-> NoUrl, rootPath |-> path[i]]],
   cache    |-> { NewURL(path[i], NoUrl) : i \in 1..n },
   queue    |-> [i \in 1..n |-> i],
   pc       |-> [i \in 1..n |-> "queued"],
   res      |-> [i \in 1..n |-> NoRes],
   failures |-> [i \in 1..n |-> <<>>],
   attempts |-> [i \in 1..n |-> 0],
   ladder   |-> [i \in 1..n |-> <<>>]]

\* ------------------------------------------------------------------ inputs
SkipLists ==
  { [fn |-> FALSE, list |-> <<>>],          \* linksToSkip absent
    [fn |-> FALSE, list |-> <<"q", "p">>],  \* a list of regular expressions
    [fn |-> FALSE, list |-> <<"(">>] }      \* a pattern that is no regular expression
SkipPredicate == [fn |-> TRUE, list |-> <<>>]

\* the calls of check() explored
Configs ==
  [path : {<<RootRaw>>}, recurse : BOOLEAN, concurrency : {0, 1}, linksToSkip : SkipLists]
    \cup
  [path : {<<PUrl, RootUrl>>}, recurse : {TRUE}, concurrency : {0, 1}, linksToSkip : SkipLists]
    \cup
  [path : {<<RootRaw, RootRaw>>}, recurse : {FALSE}, concurrency : {0, 1},
   linksToSkip : SkipLists]
    \cup
  [path : {<<RootRaw>>}, recurse : {FALSE}, concurrency : {0, 1},
   linksToSkip : {SkipPredicate}]
    \cup
  [path : {<<RootRaw>>}, recurse : {TRUE}, concurrency : {1}, linksToSkip : {SkipPredicate}]
    \cup
  [path : {<<KRaw>>}, recurse : {TRUE}, concurrency : {0},
   linksToSkip : {[fn |-> FALSE, list |-> <<>>]}]

\* starting pages without links, on one host and on two, and a starting page
\* whose links are not followed
RetryConfigs ==
  [path : {<<QUrl, RUrl>>, <<QUrl, YUrl>>, <<KRaw>>}, recurse : {FALSE}, concurrency : {0},
   linksToSkip : {[fn |-> FALSE, list |-> <<>>]}]
    \cup
  [path : {<<QUrl, RUrl, YUrl>>}, recurse : {FALSE}, concurrency : {1},
   linksToSkip : {[fn |-> FALSE, list |-> <<>>]}]

NoSkips == [fn |-> FALSE, list |-> <<>>]

\* a file of the file system, with and without serverRoot
LocalConfigs ==
  { [path |-> <<File>>, recurse |-> FALSE, concurrency |-> 0, linksToSkip |-> NoSkips],
    [path |-> <<File>>, recurse |-> FALSE, concurrency |-> 0, linksToSkip |-> NoSkips,
     serverRoot |-> <<"root">>] }

\* options that processOptions refuses
InvalidConfigs ==
  [path : {<<>>, <<RootRaw, File>>, <<File, RootRaw>>, <<NoMatch>>, <<File, NoMatch>>},
   recurse : {FALSE}, concurrency : {0}, linksToSkip : {NoSkips}]
    \cup
  [path : {<<RootRaw>>, <<NoMatch>>, <<File, RootRaw>>}, recurse : {FALSE}, concurrency : {0},
   linksToSkip : {NoSkips}, serverRoot : {<<"root">>}]

AllConfigs == Configs \cup RetryConfigs \cup LocalConfigs \cup InvalidConfigs

\* two starting pages whose root paths differ and that both link to /p
SchedConfigs ==
  [path : {<<RootUrl, XUrl>>}, recurse : {TRUE}, concurrency : {0, 1},
   linksToSkip : {NoSkips}]

Statuses == {200, 300, 405, 429}
ContentTypes == {"text/html", "image/png"}
RetryAfters ==
  { [kind |-> "none", v |-> 0],     \* no header
    [kind |-> "secs", v |-> 1],
    [kind |-> "date", v |-> 0],     \* the HTTP-date of the epoch
    [kind |-> "date", v |-> 1],
    [kind |-> "junk", v |-> 0] }    \* neither a number nor a date

Responses ==
  { r \in [status : Statuses, contentType : ContentTypes, retryAfter : RetryAfters] :
      /\ r.status # 429 => r.retryAfter.kind = "none"
      /\ r.status # 200 => r.contentType = "text/html" }

Plain == [status |-> 200, contentType |-> "text/html", retryAfter |-> [kind |-> "none", v |-> 0]]

\* how many requests of the run may throw or be answered other than Plain
OddBudget == IF options \in RetryConfigs THEN MaxOddRetry ELSE MaxOdd

\* ------------------------------------------------------------- JS numbers
Gt(a, b) == a # NaN /\ b # NaN /\ a > b
Truthy(n) == n # NaN /\ n # 0
StatusOf(r) == IF "status" \in DOMAIN r THEN r.status ELSE Undefined

\* ------------------------------------------------------------------- Queue
Executing(p) == { i \in 1..Len(p) : p[i] \in {"skipfn", "req1", "req2", "req3"} }

QueueConcurrencyMutant == DefaultConcurrency
\* new Queue({concurrency: options.concurrency || 100})
QueueConcurrency ==
  IF options.concurrency # 0 THEN options.concurrency ELSE DefaultConcurrency

\* queue.add(fn, {delay})
QueueAdd(st, id, delay) ==
  IF delay > 0
    THEN [st EXCEPT !.delayed = Append(@, <<id, now + delay>>), !.pc[id] = "queued"]
    ELSE [st EXCEPT !.queue = Append(@, id), !.pc[id] = "queued"]

QueueIdle == queue = <<>> /\ delayed = <<>> /\ Executing(pc) = {}

\* ------------------------------------------------------------------- crawl
MapSet(f, k, v) == [x \in DOMAIN f \cup {k} |-> IF x = k THEN v ELSE f[x]]
MapDelete(f, k) == [x \in DOMAIN f \ {k} |-> f[x]]

\* opts.results.push(r); this.emit('link', r)
Push(st, r, id) ==
  [st EXCEPT !.results = Append(@, r), !.origin = Append(@, id),
             !.events = Append(@, [type |-> "link", result |-> r])]

\* the promise of the task rejects
Fail(st, id) == [st EXCEPT !.pc[id] = "failed"]

\* await request({method, url, ...})
IssueRequest(st, id, step, method) ==
  [st EXCEPT !.pc[id] = IF step = 1 THEN "req1" ELSE IF step = 2 THEN "req2" ELSE "req3",
             !.requests = @ \cup {[task |-> id, step |-> step, method |-> method]},
             !.attempts[id] = IF step = 1 THEN @ + 1 ELSE @,
             !.ladder[id] = (IF step = 1 THEN <<>> ELSE @) \o
                              <<[step |-> step, method |-> method, outcome |-> Pending]>>]

\* new RegExp(linkToSkip) throws / new RegExp(linkToSkip).test(href)
InvalidRegExp(pat) == pat = "("
RegExpTest(pat, href) == \E i \in 1..Len(href) : href[i] = pat

isHtmlMutant(r) ==
  r.contentType \in {"text/html", "application/xhtml+xml"} /\ r.status >= 200 /\ r.status < 300
\* isHtml(response)
isHtml(r) == r.contentType \in {"text/html", "application/xhtml+xml"}

HasRetryAfter(r) == r.status = 429 /\ r.retryAfter.kind # "none"

\* shouldRetryAfter: the number it computes and returns
RetryAfterTime(r) ==
  IF ~HasRetryAfter(r) THEN 0
  ELSE IF r.retryAfter.kind = "secs" THEN r.retryAfter.v + now   \* Number(raw) * 1000 + Date.now()
  ELSE IF r.retryAfter.kind = "date" THEN r.retryAfter.v         \* new Date(raw).getTime()
  ELSE NaN

DelayCacheWriteMutant(dc, h, r) ==
  IF ~HasRetryAfter(r) THEN dc ELSE MapSet(dc, h, RetryAfterTime(r))
\* shouldRetryAfter: what it leaves in delayCache
DelayCacheWrite(dc, h, r) ==
  LET t == RetryAfterTime(r) IN
  IF ~HasRetryAfter(r) THEN dc
  ELSE IF h \in DOMAIN dc THEN (IF Gt(t, dc[h]) THEN MapSet(dc, h, t) ELSE dc)
  ELSE MapSet(dc, h, t)

\* the state after shouldRetryAfter(res, opts); crawl returns when
\* Truthy(RetryAfterTime(r))
shouldRetryAfter(st, r, id) ==
  LET t   == RetryAfterTime(r)
      h   == Host(st.opts[id].url)
      dc  == DelayCacheWrite(st.delayCache, h, r)
      st1 == [st EXCEPT !.delayCache = dc,
                        !.lastWrite = IF HasRetryAfter(r)
                                        THEN [host |-> h, had |-> h \in DOMAIN st.delayCache,
                                              before |-> IF h \in DOMAIN st.delayCache
                                                           THEN st.delayCache[h] ELSE Undefined,
                                              proposed |-> t, after |-> dc[h]]
                                        ELSE @]
  IN IF Truthy(t)
       THEN QueueAdd([st1 EXCEPT !.res[id] = NoRes, !.failures[id] = <<>>], id, t - now)
       ELSE st1

TouchedMutant(c, href) == FALSE
\* opts.cache.has(result.url.href)
Touched(c, href) == href \in c

ChildCrawlMutant(o, url) == options.recurse /\ StartsWith(url, o.rootPath)
\* the crawl flag of the task added for an extracted link
ChildCrawl(o, url) ==
  LET pre == options.recurse /\ StartsWith(url, o.rootPath) IN
  IF pre /\ NewURL(o.rootPath, NoUrl) # NoUrl
    THEN Host(url) = Host(NewURL(o.rootPath, NoUrl))
    ELSE pre

ChildOptionsMutant(o, url, crawl) ==
  [url |-> url, crawl |-> crawl, parent |-> url, rootPath |-> o.rootPath]
\* the CrawlOptions of the task added for an extracted link
ChildOptions(o, url, crawl) ==
  [url |-> url, crawl |-> crawl, parent |-> o.url, rootPath |-> o.rootPath]

\* the loop over the extracted links
RECURSIVE CrawlLinks(_, _, _)
CrawlLinks(links, st, id) ==
  IF links = <<>> THEN st
  ELSE
    LET result == Head(links)
        o      == st.opts[id]
        crawl  == ChildCrawl(o, result.url)
        child  == ChildOptions(o, result.url, crawl)
        n      == Len(st.opts) + 1
    IN
    IF result.url = NoUrl THEN
      CrawlLinks(Tail(links),
                 Push(st, [url |-> result.link, status |-> 0, state |-> BROKEN,
                           parent |-> o.url], id),
                 id)
    ELSE IF ~Touched(st.cache, result.url) THEN
      CrawlLinks(Tail(links),
                 QueueAdd([st EXCEPT !.cache = @ \cup {result.url},
                                     !.opts = Append(@, child),
                                     !.pc = Append(@, "queued"),
                                     !.res = Append(@, NoRes),
                                     !.failures = Append(@, <<>>),
                                     !.attempts = Append(@, 0),
                                     !.ladder = Append(@, <<>>)], n, 0),
                 id)
    ELSE CrawlLinks(Tail(links), st, id)

ShouldExtractMutant(o, r) == o.crawl /\ isHtml(r) /\ options.recurse
\* if (opts.crawl && shouldRecurse)
ShouldExtract(o, r) == o.crawl /\ (r # NoRes /\ isHtml(r))

ClassifyMutant(status) == IF status >= 200 /\ status <= 300 THEN OK ELSE BROKEN
\* Assume any 2xx status is ok
Classify(status) == IF status >= 200 /\ status < 300 THEN OK ELSE BROKEN

\* from "if (res !== undefined)" to the end of crawl
Record(st, id, r) ==
  LET o      == st.opts[id]
      status == IF r # NoRes THEN r.status ELSE 0
      state  == Classify(status)
      fails  == IF state = OK THEN st.failures[id] ELSE Append(st.failures[id], r)
      result == [url |-> o.url, status |-> status, state |-> state, parent |-> o.parent,
                 failureDetails |-> fails]
      st1    == [Push(st, result, id) EXCEPT !.pc[id] = "done", !.res[id] = r,
                                             !.failures[id] = fails]
  IN IF ShouldExtract(o, r)
       THEN CrawlLinks(ParsedLinks(Body(o.url), o.url),
                       [st1 EXCEPT !.events = Append(@, [type |-> "pagestart", url |-> o.url]),
                                   !.extracted = @ \cup {id}],
                       id)
       ELSE st1

SecondTryMutant(st, id, r) ==
  IF r = NoRes \/ r.status < 200 \/ r.status >= 300
    THEN IssueRequest([st EXCEPT !.res[id] = r], id, 3, "GET")
    ELSE Record(st, id, r)
\* the second try block: one more GET for a task that is not crawled
SecondTry(st, id, r) ==
  IF (r = NoRes \/ r.status < 200 \/ r.status >= 300) /\ ~st.opts[id].crawl
    THEN IssueRequest([st EXCEPT !.res[id] = r], id, 3, "GET")
    ELSE Record(st, id, r)

FirstMethodMutant(o) == "GET"
\* method: opts.crawl ? 'GET' : 'HEAD'
FirstMethod(o) == IF o.crawl THEN "GET" ELSE "HEAD"

DelayGateBlocksMutant(dc, h) == h \in DOMAIN dc /\ Gt(now, dc[h])
\* opts.delayCache.has(host) && timeout > Date.now()
DelayGateBlocks(dc, h) == h \in DOMAIN dc /\ Gt(dc[h], now)

DelayGateMutant(st, id) ==
  LET o == st.opts[id]
      h == Host(o.url)
  IN IF DelayGateBlocks(st.delayCache, h)
       THEN QueueAdd([st EXCEPT !.gated = @ \cup {id}], id, st.delayCache[h] - now)
       ELSE IssueRequest([st EXCEPT !.res[id] = NoRes, !.failures[id] = <<>>], id, 1,
                         FirstMethod(o))
\* from the delay gate to the first request
DelayGate(st, id) ==
  LET o == st.opts[id]
      h == Host(o.url)
  IN IF DelayGateBlocks(st.delayCache, h)
       THEN QueueAdd([st EXCEPT !.gated = @ \cup {id}], id, st.delayCache[h] - now)
       ELSE IssueRequest([st EXCEPT !.delayCache = MapDelete(@, h), !.res[id] = NoRes,
                                    !.failures[id] = <<>>], id, 1, FirstMethod(o))

\* the result of a URL skipped by the predicate or by the list
SkipResult(o) == [url |-> o.url, state |-> SKIPPED, parent |-> o.parent]

SkipListMutant(st, id) ==
  LET o == st.opts[id]
      l == options.linksToSkip.list
  IN IF DelayGateBlocks(st.delayCache, Host(o.url)) THEN DelayGate(st, id)
     ELSE IF ~options.linksToSkip.fn /\ (\E i \in 1..Len(l) : InvalidRegExp(l[i]))
       THEN Fail(st, id)
     ELSE IF ~options.linksToSkip.fn /\ (\E i \in 1..Len(l) : RegExpTest(l[i], o.url))
       THEN [Push(st, SkipResult(o), id) EXCEPT !.pc[id] = "done"]
     ELSE DelayGate(st, id)
\* the list of regular expressions, then the rest of crawl
SkipList(st, id) ==
  LET o == st.opts[id]
      l == options.linksToSkip.list
  IN IF ~options.linksToSkip.fn /\ (\E i \in 1..Len(l) : InvalidRegExp(l[i]))
       THEN Fail(st, id)
     ELSE IF ~options.linksToSkip.fn /\ (\E i \in 1..Len(l) : RegExpTest(l[i], o.url))
       THEN [Push(st, SkipResult(o), id) EXCEPT !.pc[id] = "done"]
     ELSE DelayGate(st, id)

\* the scheme gate, then the call of the predicate
CrawlBegin(st, id) ==
  LET o == st.opts[id] IN
  IF Protocol(o.url) # "http:" /\ Protocol(o.url) # "https:"
    THEN [Push(st, [url |-> o.url, status |-> 0, state |-> SKIPPED, parent |-> o.parent], id)
            EXCEPT !.pc[id] = "done"]
  ELSE IF options.linksToSkip.fn THEN [st EXCEPT !.pc[id] = "skipfn"]
  ELSE SkipList(st, id)

PassedMutant(rs) == \A k \in 1..Len(rs) : rs[k].state = OK
\* results.filter(x => x.state === LinkState.BROKEN).length === 0
Passed(rs) == Len(SelectSeq(rs, LAMBDA x : x.state = BROKEN)) = 0

\* ----------------------------------------------------------------- actions
Init ==
  /\ options \in AllConfigs
  /\ phase = "init"
  /\ now = 1
  /\ opts = <<>> /\ pc = <<>> /\ res = <<>> /\ failures = <<>> /\ attempts = <<>>
  /\ queue = <<>> /\ delayed = <<>>
  /\ results = <<>> /\ events = <<>> /\ origin = <<>>
  /\ cache = {} /\ delayCache = <<>>
  /\ requests = {} /\ odd = 0
  /\ fnAnswers = <<>> /\ extracted = {} /\ gated = {} /\ heldStart = {}
  /\ lastWrite = NoWrite /\ ladder = <<>>
  /\ ret = NoRet
  /\ server = "none"
  /\ linkQueue = <<>> /\ maxSockets = 1 /\ handlerCalls = <<>>
  /\ flags = <<>> /\ configFile = NoFile /\ config = <<>> /\ cfgPhase = "idle"
  /\ fileRead = FALSE

\* check(): processOptions throws, or check awaits the local server when no
\* path is an HTTP path, or the starting URLs enter the cache and the queue
Check ==
  /\ phase = "init"
  /\ IF OptionsError(options) # "none"
       THEN /\ phase' = "rejected"
            /\ UNCHANGED <<opts, cache, queue, pc, res, failures, attempts, ladder, server>>
       ELSE IF StartsServer(options)
       THEN /\ phase' = "starting"
            /\ server' = "starting"
            /\ UNCHANGED <<opts, cache, queue, pc, res, failures, attempts, ladder>>
       ELSE LET e == Enqueued(CheckPaths(options)) IN
            /\ phase' = "running"
            /\ opts' = e.opts /\ cache' = e.cache /\ queue' = e.queue /\ pc' = e.pc
            /\ res' = e.res /\ failures' = e.failures /\ attempts' = e.attempts
            /\ ladder' = e.ladder
            /\ UNCHANGED server
  /\ UNCHANGED <<ucVars, cfgVars>>
  /\ UNCHANGED <<options, now, delayed, results, events, delayCache, ret, origin,
                 requests, fnAnswers, extracted, gated, heldStart, lastWrite, odd>>

\* check(): startWebServer resolves; the paths are rewritten and the starting
\* URLs enter the cache and the queue
ServerListens ==
  /\ phase = "starting"
  /\ LET e == Enqueued(CheckPaths(options)) IN
       /\ phase' = "running"
       /\ server' = "listening"
       /\ opts' = e.opts /\ cache' = e.cache /\ queue' = e.queue /\ pc' = e.pc
       /\ res' = e.res /\ failures' = e.failures /\ attempts' = e.attempts
       /\ ladder' = e.ladder
  /\ UNCHANGED <<ucVars, cfgVars>>
  /\ UNCHANGED <<options, now, delayed, results, events, delayCache, ret, origin,
                 requests, fnAnswers, extracted, gated, heldStart, lastWrite, odd>>

\* the Queue starts its next runnable task: crawl runs up to its first await
Start ==
  /\ phase = "running"
  /\ queue # <<>>
  /\ Cardinality(Executing(pc)) < QueueConcurrency
  /\ LET id == Head(queue)
         h  == Host(opts[id].url)
     IN Becomes(CrawlBegin([Cur EXCEPT !.queue = Tail(@),
                                       !.heldStart = IF h \in DOMAIN delayCache /\ Gt(delayCache[h], now)
                                                       THEN @ \cup {id} ELSE @],
                           id))
  /\ UNCHANGED <<ucVars, cfgVars>>
  /\ UNCHANGED <<options, phase, now, ret, server, fnAnswers>>

\* a delayed task becomes runnable
Release(k) ==
  /\ phase = "running"
  /\ k \in 1..Len(delayed)
  /\ delayed[k][2] <= now
  /\ queue' = Append(queue, delayed[k][1])
  /\ delayed' = SubSeq(delayed, 1, k-1) \o SubSeq(delayed, k+1, Len(delayed))
  /\ UNCHANGED <<ucVars, cfgVars>>
  /\ UNCHANGED <<options, phase, now, opts, pc, res, failures, results, events, cache,
                 delayCache, ret, server, origin, requests, attempts, fnAnswers, extracted,
                 gated, heldStart, lastWrite, ladder, odd>>

\* the skip predicate resolves
SkipResolves(id, skip) ==
  /\ id \in 1..Len(pc) /\ pc[id] = "skipfn"
  /\ opts[id].url \in DOMAIN fnAnswers => skip = fnAnswers[opts[id].url]
  /\ fnAnswers' = MapSet(fnAnswers, opts[id].url, skip)
  /\ Becomes(IF skip THEN [Push(Cur, SkipResult(opts[id]), id) EXCEPT !.pc[id] = "done"]
             ELSE SkipList(Cur, id))
  /\ UNCHANGED <<ucVars, cfgVars>>
  /\ UNCHANGED <<options, phase, now, ret, server>>

\* the skip predicate rejects
SkipRejects(id) ==
  /\ id \in 1..Len(pc) /\ pc[id] = "skipfn"
  /\ opts[id].url \notin DOMAIN fnAnswers
  /\ Becomes(Fail(Cur, id))
  /\ UNCHANGED <<ucVars, cfgVars>>
  /\ UNCHANGED <<options, phase, now, ret, server, fnAnswers>>

\* the request a task awaits is answered
Respond(id, r) ==
  /\ id \in 1..Len(pc) /\ pc[id] \in {"req1", "req2", "req3"}
  /\ r # Plain => odd < OddBudget
  /\ HasRetryAfter(r) => RetryAfterTime(r) <= MaxTime
  /\ LET st1 == shouldRetryAfter([Cur EXCEPT !.odd = IF r # Plain THEN @ + 1 ELSE @,
                                             !.ladder[id][Len(ladder[id])].outcome = r.status],
                                  r, id) IN
     Becomes(IF Truthy(RetryAfterTime(r)) THEN st1
             ELSE IF pc[id] = "req1" /\ r.status = 405
               THEN IssueRequest([st1 EXCEPT !.res[id] = r], id, 2, "GET")
             ELSE IF pc[id] = "req3" THEN Record(st1, id, r)
             ELSE SecondTry(st1, id, r))
  /\ UNCHANGED <<ucVars, cfgVars>>
  /\ UNCHANGED <<options, phase, now, ret, server, fnAnswers>>

\* the request a task awaits throws
RequestFails(id) ==
  /\ id \in 1..Len(pc) /\ pc[id] \in {"req1", "req2", "req3"}
  /\ odd < OddBudget
  /\ LET st1 == [Cur EXCEPT !.failures[id] = Append(@, [error |-> pc[id]]), !.odd = @ + 1,
                             !.ladder[id][Len(ladder[id])].outcome = Threw] IN
     Becomes(IF pc[id] = "req3" THEN Record(st1, id, res[id])
             ELSE SecondTry(st1, id, res[id]))
  /\ UNCHANGED <<ucVars, cfgVars>>
  /\ UNCHANGED <<options, phase, now, ret, server, fnAnswers>>

\* time passes
Tick ==
  /\ phase = "running"
  /\ delayed # <<>> \/ DOMAIN delayCache # {}
  /\ now < MaxTime
  /\ now' = now + 1
  /\ UNCHANGED <<ucVars, cfgVars>>
  /\ UNCHANGED <<options, phase, opts, pc, res, failures, queue, delayed, results, events,
                 cache, delayCache, ret, server, origin, requests, attempts, fnAnswers,
                 extracted, gated, heldStart, lastWrite, ladder, odd>>

TeardownMutant(srv) == srv
\* if (server) server.destroy()
Teardown(srv) == IF srv = "listening" THEN "destroyed" ELSE srv

\* queue.onIdle() resolves and check returns
Return ==
  /\ phase = "running"
  /\ QueueIdle
  /\ ret' = [links |-> results, passed |-> Passed(results), returned |-> TRUE]
  /\ phase' = "returned"
  /\ server' = Teardown(server)
  /\ UNCHANGED <<ucVars, cfgVars>>
  /\ UNCHANGED <<options, now, opts, pc, res, failures, queue, delayed, results, events,
                 cache, delayCache, origin, requests, attempts, fnAnswers, extracted,
                 gated, heldStart, lastWrite, ladder, odd>>

Released == \E k \in 1..Len(delayed) : Release(k)
PredicateResolves == \E id \in 1..Len(pc) : \E skip \in BOOLEAN : SkipResolves(id, skip)
PredicateRejects == \E id \in 1..Len(pc) : SkipRejects(id)
Responded == \E id \in 1..Len(pc) : \E r \in Responses : Respond(id, r)
RequestFailed == \E id \in 1..Len(pc) : RequestFails(id)

Next ==
  \/ Check
  \/ ServerListens
  \/ Start
  \/ Released
  \/ PredicateResolves
  \/ PredicateRejects
  \/ Responded
  \/ RequestFailed
  \/ Tick
  \/ Return

Spec == Init /\ [][Next]_vars

\* the runs of SchedConfigs against a server that answers every request alike
InitSched ==
  /\ options \in SchedConfigs
  /\ phase = "init"
  /\ now = 1
  /\ opts = <<>> /\ pc = <<>> /\ res = <<>> /\ failures = <<>> /\ attempts = <<>>
  /\ queue = <<>> /\ delayed = <<>>
  /\ results = <<>> /\ events = <<>> /\ origin = <<>>
  /\ cache = {} /\ delayCache = <<>>
  /\ requests = {} /\ odd = 0
  /\ fnAnswers = <<>> /\ extracted = {} /\ gated = {} /\ heldStart = {}
  /\ lastWrite = NoWrite /\ ladder = <<>>
  /\ ret = NoRet
  /\ server = "none"
  /\ linkQueue = <<>> /\ maxSockets = 1 /\ handlerCalls = <<>>
  /\ flags = <<>> /\ configFile = NoFile /\ config = <<>> /\ cfgPhase = "idle"
  /\ fileRead = FALSE

RespondedPlain == \E id \in 1..Len(pc) : Respond(id, Plain)

NextSched ==
  \/ Check
  \/ Start
  \/ RespondedPlain
  \/ Return

SpecSched == InitSched /\ [][NextSched]_vars

\* the runs in which the queue is scheduled fairly, every request completes,
\* the skip predicate resolves and time passes
LiveConfigs ==
  { [path |-> <<KRaw>>, recurse |-> TRUE, concurrency |-> 0, linksToSkip |-> NoSkips],
    [path |-> <<RootRaw>>, recurse |-> FALSE, concurrency |-> 1, linksToSkip |-> SkipPredicate],
    [path |-> <<File>>, recurse |-> FALSE, concurrency |-> 0, linksToSkip |-> NoSkips] }

InitLive ==
  /\ options \in LiveConfigs
  /\ phase = "init"
  /\ now = 1
  /\ opts = <<>> /\ pc = <<>> /\ res = <<>> /\ failures = <<>> /\ attempts = <<>>
  /\ queue = <<>> /\ delayed = <<>>
  /\ results = <<>> /\ events = <<>> /\ origin = <<>>
  /\ cache = {} /\ delayCache = <<>>
  /\ requests = {} /\ odd = 0
  /\ fnAnswers = <<>> /\ extracted = {} /\ gated = {} /\ heldStart = {}
  /\ lastWrite = NoWrite /\ ladder = <<>>
  /\ ret = NoRet
  /\ server = "none"
  /\ linkQueue = <<>> /\ maxSockets = 1 /\ handlerCalls = <<>>
  /\ flags = <<>> /\ configFile = NoFile /\ config = <<>> /\ cfgPhase = "idle"
  /\ fileRead = FALSE

RequestCompletes == Responded \/ RequestFailed

NextLive ==
  \/ Check
  \/ ServerListens
  \/ Start
  \/ Released
  \/ PredicateResolves
  \/ RequestCompletes
  \/ Tick
  \/ Return

\* WF_vars(RequestCompletes), with ENABLED <<RequestCompletes>>_vars written
\* out: a request can complete exactly when one is awaited
RequestFairness ==
  \/ []<>(~\E i \in 1..Len(pc) : pc[i] \in {"req1", "req2", "req3"})
  \/ []<><<RequestCompletes>>_vars

\* the promises of check settle, the Queue starts and releases its tasks, the
\* skip predicate resolves, every request completes and time passes
Fairness ==
  /\ WF_vars(Check) /\ WF_vars(ServerListens)
  /\ WF_vars(Start) /\ WF_vars(Released)
  /\ WF_vars(PredicateResolves)
  /\ RequestFairness
  /\ WF_vars(Tick)
  /\ WF_vars(Return)

SpecLive == InitLive /\ [][NextLive]_vars /\ Fairness

\* ------------------------------------------------------------- UrlChecker
CustomData == {"a", "b"}
CheckResults == {"ok", "broken"}      \* what the promise of checkUrl resolves with

Call(type, k, result, customData) ==
  [type |-> type, item |-> k, result |-> result, customData |-> customData]

\* the items the queue counts as active: dispatched, done() not yet called
Active(q) == { k \in 1..Len(q) : q[k].state \in {"active", "stuck"} }
Queued(q) == { k \in 1..Len(q) : q[k].state = "queued" }

\* this.linkQueue.enqueue({url, data: {orgUrl, baseUrl, customData}})
enqueue(q, customData) ==
  Append(q, [customData |-> customData, state |-> "queued", result |-> "none"])

\* done(): the item leaves the queue, which fires "end" when nothing is left
done(u, k) ==
  LET q   == [u.q EXCEPT ![k].state = "done"]
      log == Append(u.log, Call("done", k, "", ""))
  IN [q |-> q,
      log |-> IF Active(q) = {} /\ Queued(q) = {}
                THEN Append(log, Call("end", 0, "", "")) ELSE log]

handle_checkUrlMutant(u, k, result, throws) ==
  LET u1 == done([u EXCEPT !.q[k].result = result], k)
  IN [u1 EXCEPT !.log = Append(@, Call("link", k, result, u.q[k].customData))]
\* handle_checkUrl(result): handlers.link(result, customData), then done()
handle_checkUrl(u, k, result, throws) ==
  LET u1 == [u EXCEPT !.q[k].result = result,
                      !.log = Append(@, Call("link", k, result, u.q[k].customData))]
  IN IF throws THEN [u1 EXCEPT !.q[k].state = "stuck"] ELSE done(u1, k)

InitUrlChecker ==
  /\ options = [path |-> <<>>, recurse |-> FALSE, concurrency |-> 0, linksToSkip |-> NoSkips]
  /\ phase = "init"
  /\ now = 1
  /\ opts = <<>> /\ pc = <<>> /\ res = <<>> /\ failures = <<>> /\ attempts = <<>>
  /\ queue = <<>> /\ delayed = <<>>
  /\ results = <<>> /\ events = <<>> /\ origin = <<>>
  /\ cache = {} /\ delayCache = <<>>
  /\ requests = {} /\ odd = 0
  /\ fnAnswers = <<>> /\ extracted = {} /\ gated = {} /\ heldStart = {}
  /\ lastWrite = NoWrite /\ ladder = <<>>
  /\ ret = NoRet
  /\ server = "none"
  /\ linkQueue = <<>> /\ handlerCalls = <<>>
  /\ maxSockets \in {1, 2}
  /\ flags = <<>> /\ configFile = NoFile /\ config = <<>> /\ cfgPhase = "idle"
  /\ fileRead = FALSE

\* urlChecker.enqueue(url, baseUrl, customData)
Enqueue(customData) ==
  /\ Len(linkQueue) < MaxItems
  /\ linkQueue' = enqueue(linkQueue, customData)
  /\ UNCHANGED <<maxSockets, handlerCalls>>
  /\ UNCHANGED <<crawlVars, cfgVars>>

\* the queue hands its next item to the item handler, which calls checkUrl
Dispatch(k) ==
  /\ k \in Queued(linkQueue) /\ \A j \in Queued(linkQueue) : k <= j
  /\ Cardinality(Active(linkQueue)) < maxSockets
  /\ linkQueue' = [linkQueue EXCEPT ![k].state = "active"]
  /\ handlerCalls' = Append(handlerCalls, Call("checkUrl", k, "", ""))
  /\ UNCHANGED maxSockets
  /\ UNCHANGED <<crawlVars, cfgVars>>

\* the promise of checkUrl resolves; the link handler may enqueue a further
\* URL, and returns or throws
CheckUrlResolves(k, result, more, throws) ==
  /\ k \in 1..Len(linkQueue) /\ linkQueue[k].state = "active"
  /\ more # "" => Len(linkQueue) < MaxItems
  /\ LET q == IF more # "" THEN enqueue(linkQueue, more) ELSE linkQueue
         u == handle_checkUrl([q |-> q, log |-> handlerCalls], k, result, throws)
     IN linkQueue' = u.q /\ handlerCalls' = u.log
  /\ UNCHANGED maxSockets
  /\ UNCHANGED <<crawlVars, cfgVars>>

EnqueueCalled == \E d \in CustomData : Enqueue(d)
Dispatched == \E k \in 1..Len(linkQueue) : Dispatch(k)
CheckUrlResolved ==
  \E k \in 1..Len(linkQueue) : \E r \in CheckResults : \E more \in CustomData \cup {""} :
    \E throws \in BOOLEAN : CheckUrlResolves(k, r, more, throws)

NextUrlChecker ==
  \/ EnqueueCalled
  \/ Dispatched
  \/ CheckUrlResolved

SpecUrlChecker == InitUrlChecker /\ [][NextUrlChecker]_vars

\* --------------------------------------------------------------- getConfig
\* a flag value: undefined, a boolean (v: 0, 1), a string (v: 0 for '', else
\* the name of the string) or an array (v: its length)
Undef == [kind |-> "undefined", v |-> 0]
Keys == {"config", "recurse", "skip"}
FlagValues(key) ==
  IF key = "config" THEN {Undef, [kind |-> "string", v |-> 0], [kind |-> "string", v |-> 1]}
  ELSE IF key = "recurse" THEN {Undef, [kind |-> "boolean", v |-> 0], [kind |-> "boolean", v |-> 1]}
  ELSE {Undef, [kind |-> "string", v |-> 1]} \cup { [kind |-> "array", v |-> n] : n \in 0..MaxSkip }
\* the objects over some of the keys
Objects(keys) ==
  UNION { { f \in [D -> UNION { FlagValues(key) : key \in Keys }] :
              \A key \in D : f[key] \in FlagValues(key) } : D \in SUBSET keys }
\* what parseConfigFile finds: a file that parses to an object, or none that
\* can be read
ConfigFiles ==
  { [ok |-> TRUE, map |-> f] : f \in { g \in Objects({"recurse", "skip"}) :
                                          \A key \in DOMAIN g : g[key] # Undef } }
    \cup {[ok |-> FALSE, map |-> <<>>]}

\* if (flags.config)
FlagTruthy(fl, key) ==
  key \in DOMAIN fl /\ fl[key].kind # "undefined" /\ ~(fl[key].kind \in {"string", "boolean"} /\ fl[key].v = 0)
\* typeof value === 'undefined' || (Array.isArray(value) && value.length === 0)
Stripped(value) == value.kind = "undefined" \/ (value.kind = "array" /\ value.v = 0)
StrippedFlagsMutant(fl) ==
  [key \in { k \in DOMAIN fl : fl[k].kind # "undefined" } |-> fl[key]]
\* strippedFlags after the forEach
StrippedFlags(fl) == [key \in { k \in DOMAIN fl : ~Stripped(fl[k]) } |-> fl[key]]
\* Object.assign({}, a, b)
Assign(a, b) == [key \in DOMAIN a \cup DOMAIN b |-> IF key \in DOMAIN b THEN b[key] ELSE a[key]]
\* the object getConfig resolves with, file being what parseConfigFile gave
getConfig(fl, file) == Assign(IF FlagTruthy(fl, "config") THEN file ELSE <<>>, StrippedFlags(fl))

InitConfig ==
  /\ options = [path |-> <<>>, recurse |-> FALSE, concurrency |-> 0, linksToSkip |-> NoSkips]
  /\ phase = "init"
  /\ now = 1
  /\ opts = <<>> /\ pc = <<>> /\ res = <<>> /\ failures = <<>> /\ attempts = <<>>
  /\ queue = <<>> /\ delayed = <<>>
  /\ results = <<>> /\ events = <<>> /\ origin = <<>>
  /\ cache = {} /\ delayCache = <<>>
  /\ requests = {} /\ odd = 0
  /\ fnAnswers = <<>> /\ extracted = {} /\ gated = {} /\ heldStart = {}
  /\ lastWrite = NoWrite /\ ladder = <<>>
  /\ ret = NoRet
  /\ server = "none"
  /\ linkQueue = <<>> /\ maxSockets = 1 /\ handlerCalls = <<>>
  /\ flags \in Objects(Keys) /\ configFile \in ConfigFiles
  /\ config = <<>> /\ cfgPhase = "idle" /\ fileRead = FALSE

\* getConfig(flags) up to its await, or to its end when no file is read
GetConfigCalled ==
  /\ cfgPhase = "idle"
  /\ IF FlagTruthy(flags, "config")
       THEN cfgPhase' = "called" /\ fileRead' = TRUE /\ UNCHANGED config
       ELSE cfgPhase' = "returned" /\ config' = getConfig(flags, <<>>) /\ UNCHANGED fileRead
  /\ UNCHANGED <<flags, configFile>>
  /\ UNCHANGED <<crawlVars, ucVars>>

\* parseConfigFile resolves with the object of the file, or rejects
ConfigFileParsed ==
  /\ cfgPhase = "called"
  /\ IF configFile.ok
       THEN cfgPhase' = "returned" /\ config' = getConfig(flags, configFile.map)
       ELSE cfgPhase' = "rejected" /\ UNCHANGED config
  /\ UNCHANGED <<flags, configFile, fileRead>>
  /\ UNCHANGED <<crawlVars, ucVars>>

NextConfig ==
  \/ GetConfigCalled
  \/ ConfigFileParsed

SpecConfig == InitConfig /\ [][NextConfig]_vars

\* ------------------------------------------------------------ vocabulary
Tasks == 1..Len(pc)
IsChild(i) == opts[i].parent # NoUrl
InFlight(i) == pc[i] \in {"req1", "req2", "req3"}
HostDelayed(h) == h \in DOMAIN delayCache /\ Gt(delayCache[h], now)
ResultsFor(rs, u) == { k \in 1..Len(rs) : rs[k].url = u }
ResultsOf(i) == { k \in 1..Len(results) : origin[k] = i /\ results[k].url = opts[i].url }
ParseableRetryAfter(r) == r.status = 429 /\ r.retryAfter.kind \in {"secs", "date"}
ListSkips(u) ==
  /\ ~options.linksToSkip.fn
  /\ \A k \in 1..Len(options.linksToSkip.list) : ~InvalidRegExp(options.linksToSkip.list[k])
  /\ \E k \in 1..Len(options.linksToSkip.list) : RegExpTest(options.linksToSkip.list[k], u)
\* the (url, status, state) triples of a list of LinkResults
Triples(rs) == { <<rs[k].url, StatusOf(rs[k]), rs[k].state>> : k \in 1..Len(rs) }

\* the crawl state right after check() has created the starting tasks
InitialCrawl ==
  LET e == Enqueued(CheckPaths(options)) IN
  [opts |-> e.opts, pc |-> e.pc, res |-> e.res, failures |-> e.failures, queue |-> e.queue,
   delayed |-> <<>>, results |-> <<>>, events |-> <<>>, cache |-> e.cache,
   delayCache |-> <<>>, origin |-> <<>>, requests |-> {}, attempts |-> e.attempts,
   extracted |-> {}, gated |-> {}, heldStart |-> {}, lastWrite |-> NoWrite, ladder |-> e.ladder, odd |-> 0]

\* the run in which the queue runs its tasks one after the other, in the order
\* they were added, and every request is answered 200 text/html
RECURSIVE InOrder(_)
InOrder(st) ==
  IF st.queue = <<>> THEN st
  ELSE LET id == Head(st.queue)
           s1 == CrawlBegin([st EXCEPT !.queue = Tail(@)], id)
       IN InOrder(IF s1.pc[id] = "req1" THEN SecondTry(s1, id, Plain) ELSE s1)

\* the hrefs of the starting URLs
StartingUrls ==
  { NewURL(CheckPaths(options)[p], NoUrl) : p \in 1..Len(CheckPaths(options)) }

\* options that check() is to refuse
InvalidOptions ==
  \/ options.path = <<>>
  \/ \E i, j \in 1..Len(options.path) : IsHttpPath(options.path[i]) /\ ~IsHttpPath(options.path[j])
  \/ HasServerRoot(options) /\ \E i \in 1..Len(options.path) : IsHttpPath(options.path[i])
  \/ \E i \in 1..Len(options.path) : options.path[i] = NoMatch

\* the positions of handlerCalls that hold a call of the given type for item k
CallsOf(type, k) ==
  { c \in 1..Len(handlerCalls) : handlerCalls[c].type = type /\ handlerCalls[c].item = k }

Max(a, b) == IF a > b THEN a ELSE b
\* task i arrives at the delay gate in this step: it is run by the queue, or
\* its skip predicate resolves, and nothing skips it
ReachesGate(i) ==
  /\ Protocol(opts[i].url) \in {"http:", "https:"}
  /\ IF options.linksToSkip.fn
       THEN pc[i] = "skipfn" /\ pc'[i] \notin {"skipfn", "failed", "done"}
       ELSE /\ pc[i] = "queued" /\ queue # <<>> /\ Head(queue) = i /\ queue' = Tail(queue)
            /\ \A k \in 1..Len(options.linksToSkip.list) :
                 /\ ~InvalidRegExp(options.linksToSkip.list[k])
                 /\ ~RegExpTest(options.linksToSkip.list[k], opts[i].url)
\* the three reasons for which a task is skipped
SkipClass(i) ==
  \/ Protocol(opts[i].url) \notin {"http:", "https:"}
  \/ ListSkips(opts[i].url)
  \/ /\ options.linksToSkip.fn
     /\ opts[i].url \in DOMAIN fnAnswers
     /\ fnAnswers[opts[i].url]

\* ------------------------------------------------------------------ claims

\* C1: when check returns, every URL of the visit cache has exactly one
\* LinkResult in the returned links (stated for the runs in which no task
\* threw).
C1_OneResultPerVisited ==
  (phase = "returned" /\ \A i \in Tasks : pc[i] # "failed") =>
    \A u \in cache : Cardinality(ResultsFor(ret.links, u)) = 1

\* C2 (as claimed): no request to a host is in flight while delayCache holds
\* a deadline for the host that lies in the future.
C2_NoRequestInFlightWhileDelayed ==
  \A i \in Tasks : InFlight(i) => ~HostDelayed(Host(opts[i].url))

\* C2 (amended): the first request of a probe attempt is never issued to a
\* host whose delayCache deadline lies in the future.
C2_NoFirstRequestWhileDelayed ==
  [][ \A i \in Tasks :
        (pc[i] # "req1" /\ pc'[i] = "req1") => ~HostDelayed(Host(opts[i].url)) ]_vars

\* a task that had issued no request was held back by the delay gate
C2_Witness ==
  \E k \in 1..Len(delayed) : attempts[delayed[k][1]] = 0 /\ delayed[k][1] \in gated

\* C3: an attempt that got a 429 with a parseable Retry-After header appends
\* no LinkResult: no recorded result stems from such a response.
C3_NoResultFor429RetryAfter ==
  \A k \in 1..Len(results) :
    "failureDetails" \in DOMAIN results[k] =>
      \A j \in 1..Len(results[k].failureDetails) :
        LET f == results[k].failureDetails[j] IN
        "status" \in DOMAIN f => ~ParseableRetryAfter(f)

C5_OneProbeOneResult ==
  phase = "returned" =>
    \A i \in Tasks :
      IsChild(i) => (attempts[i] = 1 /\ Cardinality(ResultsFor(results, opts[i].url)) = 1)

\* C5 (amended): at most one child task is ever created for a URL, and it
\* appends at most one LinkResult, exactly one when it has run to its end.
C5_OneChildPerUrl ==
  /\ \A i, j \in Tasks : (IsChild(i) /\ IsChild(j) /\ opts[i].url = opts[j].url) => i = j
  /\ \A i \in Tasks : IsChild(i) => opts[i].url \in cache
  /\ \A i \in Tasks : IsChild(i) => Cardinality(ResultsOf(i)) <= 1
  /\ \A i \in Tasks : (IsChild(i) /\ pc[i] = "done") => Cardinality(ResultsOf(i)) = 1

\* the page that links twice to /p was extracted and /p was checked
C5_Witness ==
  /\ \E i \in extracted : opts[i].url = RootUrl
  /\ \E i \in Tasks : IsChild(i) /\ opts[i].url = PUrl /\ pc[i] = "done" /\ attempts[i] = 1

\* C6: a LinkResult has state OK iff its status is a 2xx status.
C6_StateOkIffStatus2xx ==
  \A k \in 1..Len(results) :
    results[k].state = OK <=> (StatusOf(results[k]) >= 200 /\ StatusOf(results[k]) < 300)

\* results of all kinds: OK, BROKEN with a status, and skipped without status
C6_Witness ==
  /\ \E k \in 1..Len(results) : results[k].state = OK
  /\ \E k \in 1..Len(results) : results[k].state = BROKEN /\ StatusOf(results[k]) = 300
  /\ \E k \in 1..Len(results) : results[k].state = SKIPPED

\* C7: check returns the results list, and passed iff none of them is BROKEN.
C7_PassedIffNoBroken ==
  phase = "returned" =>
    /\ ret.links = results
    /\ ret.passed <=> (\A k \in 1..Len(ret.links) : ret.links[k].state # BROKEN)

\* a run that passed although a link was skipped
C7_Witness ==
  /\ phase = "returned" /\ ret.passed
  /\ \E k \in 1..Len(ret.links) : ret.links[k].state = SKIPPED
  /\ \E k \in 1..Len(ret.links) : ret.links[k].state = OK

\* C8: the tasks that are executing never outnumber the configured
\* concurrency (100 when the option is absent).
C8_ConcurrencyBound ==
  Cardinality(Executing(pc)) <=
    (IF options.concurrency # 0 THEN options.concurrency ELSE 100)

\* the bound holds a runnable task back
C8_Witness ==
  /\ options.concurrency = 1
  /\ Cardinality(Executing(pc)) = 1
  /\ queue # <<>>

\* C9: a task that is skipped for any of the three reasons issues no request,
\* extracts no links and is never put back by the delay gate.
C9_SkippedNeverProbed ==
  \A i \in Tasks :
    SkipClass(i) =>
      /\ \A q \in requests : q.task # i
      /\ attempts[i] = 0
      /\ i \notin extracted
      /\ i \notin gated
      /\ \A k \in 1..Len(delayed) : delayed[k][1] # i

\* a task was skipped in a run that began while its host was delayed
C9_Witness ==
  \E i \in heldStart :
    /\ SkipClass(i) /\ pc[i] = "done"
    /\ \E k \in ResultsOf(i) : results[k].state = SKIPPED

\* C10: every skipped URL has a LinkResult with state SKIPPED and status 0.
C10_SkippedStatusZero ==
  \A k \in 1..Len(results) :
    results[k].state = SKIPPED => StatusOf(results[k]) = 0

\* C11: the first request of an attempt is a HEAD when the task is not crawled
\* and a GET when it is; a 405 to it is followed by one GET of the same task,
\* and when that GET is answered 2xx the task ends there with its only
\* LinkResult, which has that status and state OK and nothing of the 405.
C11_MethodLadder ==
  [][ \A i \in Tasks :
        /\ (pc[i] # "req1" /\ pc'[i] = "req1") =>
             [task |-> i, step |-> 1, method |-> IF opts[i].crawl THEN "GET" ELSE "HEAD"]
               \in requests'
        /\ \A q \in requests' :
             (q.task = i /\ q.step = 1) => q.method = (IF opts[i].crawl THEN "GET" ELSE "HEAD")
        /\ (pc[i] = "req1" /\ res'[i].status = 405) <=> (pc[i] = "req1" /\ pc'[i] = "req2")
        /\ (pc[i] = "req1" /\ pc'[i] = "req2") =>
             [task |-> i, step |-> 2, method |-> "GET"] \in requests'
        /\ (pc[i] = "req2" /\ res'[i].status >= 200 /\ res'[i].status < 300) =>
             LET k == Len(results) + 1 IN
             /\ pc'[i] = "done"
             /\ results'[k] = [url |-> opts[i].url, status |-> res'[i].status, state |-> OK,
                               parent |-> opts[i].parent, failureDetails |-> <<>>]
             /\ origin'[k] = i
             /\ \A j \in 1..Len(results') :
                  (origin'[j] = i /\ results'[j].url = opts[i].url) => j = k ]_vars

\* a task that is not crawled got 405 to its HEAD and 200 to the GET after it
C11_Witness ==
  \E i \in Tasks :
    /\ ~opts[i].crawl /\ pc[i] = "done" /\ res[i].status = 200
    /\ [task |-> i, step |-> 1, method |-> "HEAD"] \in requests
    /\ [task |-> i, step |-> 2, method |-> "GET"] \in requests
    /\ \A q \in requests : q.task = i => q.step # 3
    /\ \E k \in ResultsOf(i) : results[k].state = OK /\ results[k].status = 200

\* C12: a task that failed (its skip predicate rejected, or a skip pattern is
\* no regular expression) has a LinkResult for its URL whose failureDetails
\* record the failure.
C12_FailureRecorded ==
  \A i \in Tasks :
    pc[i] = "failed" =>
      \E k \in ResultsOf(i) :
        "failureDetails" \in DOMAIN results[k] /\ results[k].failureDetails # <<>>

\* C13: the parent of an OK or BROKEN LinkResult is the URL of a task that ran
\* with crawl=true, received an HTML response and had its own LinkResult
\* appended earlier; the LinkResults of the starting URLs have no parent.
C13_ParentIsEarlierHtmlPage ==
  /\ \A k \in 1..Len(results) :
       (results[k].state \in {OK, BROKEN} /\ results[k].parent # NoUrl) =>
         \E j \in 1..(k-1) :
           /\ results[j].url = results[k].parent
           /\ opts[origin[j]].url = results[k].parent
           /\ opts[origin[j]].crawl
           /\ isHtml(res[origin[j]])
           /\ origin[j] \in extracted
  /\ \A k \in 1..Len(results) :
       results[k].url \in StartingUrls => results[k].parent = NoUrl

\* a link of a page that is itself a child, and a link that does not parse
C13_Witness ==
  /\ \E k \in 1..Len(results) :
       results[k].url = QUrl /\ results[k].parent = PUrl /\ results[k].state = OK
  /\ \E k \in 1..Len(results) :
       results[k].url = BadLink /\ results[k].parent = RootUrl /\ results[k].state = BROKEN

\* C14: the link events are the LinkResults of results, in order; pagestart
\* fires at most once per URL, after the link event of that URL and before the
\* link event of any result whose parent is that URL.
C14_LinkEventsAndPagestart ==
  LET links == SelectSeq(events, LAMBDA e : e.type = "link")
      Pagestarts(u) == { a \in 1..Len(events) : events[a].type = "pagestart" /\ events[a].url = u }
  IN
  /\ [k \in 1..Len(links) |-> links[k].result] = results
  /\ \A u \in cache : Cardinality(Pagestarts(u)) <= 1
  /\ \A a \in 1..Len(events) :
       events[a].type = "pagestart" =>
         /\ \E b \in 1..(a-1) : events[b].type = "link" /\ events[b].result.url = events[a].url
         /\ \A b \in 1..Len(events) :
              (events[b].type = "link" /\ events[b].result.parent = events[a].url) => b > a

\* C18: a 429 whose Retry-After header is neither a number nor a date writes
\* nothing to delayCache: the cache holds deadlines only.
C18_UnparseableLeavesNoEntry ==
  \A h \in DOMAIN delayCache : delayCache[h] # NaN

\* C19: a pass of shouldRetryAfter that finds a deadline stored for the host
\* leaves the greater of the stored and the newly computed deadline, never a
\* lower one.
C19_WriteKeepsMax ==
  (lastWrite.had /\ lastWrite.before # NaN) =>
    /\ lastWrite.after # NaN /\ lastWrite.after >= lastWrite.before
    /\ lastWrite.proposed # NaN => lastWrite.after = Max(lastWrite.before, lastWrite.proposed)
    /\ lastWrite.proposed = NaN => lastWrite.after = lastWrite.before

\* a 429 proposed an earlier deadline than the stored one, which stayed
C19_Witness ==
  /\ lastWrite.had /\ lastWrite.before # NaN /\ lastWrite.proposed # NaN
  /\ lastWrite.proposed < lastWrite.before
  /\ lastWrite.host \in DOMAIN delayCache
  /\ delayCache[lastWrite.host] = lastWrite.before

\* C20: a task that arrives at the delay gate while a deadline d > now is
\* stored for its host issues no request, appends no result, fires no event
\* and is added to the queue once, due at d; with d <= now the entry of the
\* host is removed and the first request is issued; entries of other hosts
\* stay as they are.
C20_DelayGate ==
  [][ \A i \in Tasks :
        ReachesGate(i) =>
          LET h == Host(opts[i].url) IN
          /\ (h \in DOMAIN delayCache /\ delayCache[h] # NaN /\ delayCache[h] > now) =>
               /\ pc'[i] = "queued"
               /\ requests' = requests /\ attempts' = attempts
               /\ results' = results /\ events' = events
               /\ delayed' = Append(delayed, <<i, now + (delayCache[h] - now)>>)
               /\ \A k \in 1..Len(queue') : queue'[k] # i
               /\ delayCache' = delayCache
          /\ (h \in DOMAIN delayCache /\ delayCache[h] # NaN /\ delayCache[h] <= now) =>
               /\ h \notin DOMAIN delayCache'
               /\ pc'[i] = "req1"
               /\ attempts'[i] = attempts[i] + 1
               /\ results' = results /\ events' = events
               /\ \A g \in DOMAIN delayCache \ {h} :
                    g \in DOMAIN delayCache' /\ delayCache'[g] = delayCache[g] ]_vars

\* a task the gate had put back has passed it after the deadline, its host's
\* entry is gone and the entry of another host is still there
C20_Witness ==
  \E i \in gated :
    /\ pc[i] = "req1"
    /\ Host(opts[i].url) \notin DOMAIN delayCache
    /\ \E g \in DOMAIN delayCache : g # Host(opts[i].url) /\ delayCache[g] # NaN

\* C15: with every request answered alike, the (url, status, state) triples
\* check returns are those of the run that takes the tasks one after the
\* other, whatever the order in which the tasks ran.
C15_SameTriplesInEveryOrder ==
  phase = "returned" => Triples(ret.links) = Triples(InOrder(InitialCrawl).results)

C17_LinkThenDoneThenEnd ==
  /\ \A k \in 1..Len(linkQueue) :
       /\ Cardinality(CallsOf("link", k)) <= 1
       /\ Cardinality(CallsOf("done", k)) <= 1
       /\ \A l \in CallsOf("link", k) :
            /\ handlerCalls[l].result = linkQueue[k].result
            /\ handlerCalls[l].result \in CheckResults
            /\ handlerCalls[l].customData = linkQueue[k].customData
            /\ \E c \in CallsOf("checkUrl", k) : c < l
       /\ \A d \in CallsOf("done", k) : \E l \in CallsOf("link", k) : l < d
       /\ linkQueue[k].state = "done" <=> CallsOf("done", k) # {}
  /\ \A e \in 1..Len(handlerCalls) :
       handlerCalls[e].type = "end" =>
         /\ handlerCalls[e-1].type = "done"
         /\ \A c \in 1..(e-1) :
              handlerCalls[c].type = "checkUrl" =>
                \E l \in CallsOf("link", handlerCalls[c].item) : c < l /\ l < e

\* the end of the queue was reported after two items with different
\* customData had their link handler called
C17_Witness ==
  /\ \E e \in 1..Len(handlerCalls) : handlerCalls[e].type = "end"
  /\ \E k, j \in 1..Len(linkQueue) :
       /\ linkQueue[k].state = "done" /\ linkQueue[j].state = "done"
       /\ linkQueue[k].customData # linkQueue[j].customData
       /\ linkQueue[k].result # linkQueue[j].result

\* ----------------------------------------------------------------- C21
Is2xx(status) == status >= 200 /\ status < 300

\* C21: a task that is not crawled and whose first requests threw or ended in
\* a non-2xx status issues exactly one more GET, and the status recorded is
\* the status of that GET when it answers; a crawled task never issues it.
\* The requests of an attempt are awaited one at a time, at most 3 of them
\* for a task that is not crawled and at most 2 for a crawled one.
C21_ExtraGetLadder ==
  LET \* the requests of steps 1 and 2 in the last attempt of task i, and its
      \* step 3
      FirstTry(i) == SelectSeq(ladder[i], LAMBDA e : e.step # 3)
      ExtraGet(i) == SelectSeq(ladder[i], LAMBDA e : e.step = 3)
      \* the first try block is over and left no 2xx response
      FirstTryMissed(i) ==
        /\ FirstTry(i) # <<>>
        /\ LET last == FirstTry(i)[Len(FirstTry(i))] IN
             last.outcome = Threw \/ (last.outcome >= 0 /\ ~Is2xx(last.outcome))
  IN
  \A i \in Tasks :
    /\ Len(ladder[i]) <= (IF opts[i].crawl THEN 2 ELSE 3)
    /\ \A k \in 1..Len(ladder[i]) :
         /\ ladder[i][k].step = (IF k = 3 \/ (k = 2 /\ ladder[i][1].outcome # 405) THEN 3 ELSE k)
         /\ (ladder[i][k].outcome = Pending) <=> (k = Len(ladder[i]) /\ InFlight(i))
    /\ Len(ExtraGet(i)) <= 1
    /\ ExtraGet(i) # <<>> =>
         /\ ~opts[i].crawl /\ FirstTryMissed(i)
         /\ ExtraGet(i)[1].method = "GET"
    /\ (pc[i] = "done" /\ ~opts[i].crawl /\ FirstTryMissed(i)) => Len(ExtraGet(i)) = 1
    /\ (pc[i] = "done" /\ ExtraGet(i) # <<>> /\ ExtraGet(i)[1].outcome >= 0) =>
         \A k \in ResultsOf(i) : results[k].status = ExtraGet(i)[1].outcome

\* a task that is not crawled was answered 405 to HEAD, 300 to GET and 200
\* to the extra GET, and is recorded with 200
C21_Witness ==
  \E i \in Tasks :
    /\ ~opts[i].crawl /\ pc[i] = "done" /\ Len(ladder[i]) = 3
    /\ ladder[i][1] = [step |-> 1, method |-> "HEAD", outcome |-> 405]
    /\ ladder[i][2] = [step |-> 2, method |-> "GET", outcome |-> 300]
    /\ ladder[i][3] = [step |-> 3, method |-> "GET", outcome |-> 200]
    /\ \E k \in ResultsOf(i) : results[k].status = 200

\* ----------------------------------------------------------------- C22
\* C22: when every request of an attempt threw, the URL has exactly one
\* result, with status 0, state BROKEN and every thrown error in its
\* failureDetails; when a request threw and a later one was answered, the
\* result has the status of that response and the state of the 2xx rule.
C22_TransportFailure ==
  LET \* every request of the last attempt of task i threw
      AllThrew(i) ==
        ladder[i] # <<>> /\ \A k \in 1..Len(ladder[i]) : ladder[i][k].outcome = Threw
      \* a request of the last attempt threw and a later one was answered
      ThrewThenAnswered(i) ==
        \E j, k \in 1..Len(ladder[i]) :
          j < k /\ ladder[i][j].outcome = Threw /\ ladder[i][k].outcome >= 0
      \* the error thrown by the request of step n is in the failureDetails fd
      HoldsError(fd, n) ==
        \E k \in 1..Len(fd) :
          fd[k] = [error |-> IF n = 1 THEN "req1" ELSE IF n = 2 THEN "req2" ELSE "req3"]
  IN
  \A i \in Tasks :
    /\ (pc[i] = "done" /\ AllThrew(i)) =>
         /\ Cardinality(ResultsFor(results, opts[i].url)) = 1
         /\ \A k \in ResultsFor(results, opts[i].url) :
              /\ results[k].status = 0 /\ results[k].state = BROKEN
              /\ \A j \in 1..Len(ladder[i]) :
                   HoldsError(results[k].failureDetails, ladder[i][j].step)
    /\ (pc[i] = "done" /\ ThrewThenAnswered(i)) =>
         \A k \in ResultsOf(i) :
           /\ results[k].status = ladder[i][Len(ladder[i])].outcome
           /\ results[k].state = Classify(results[k].status)

\* ----------------------------------------------------------------- C23
\* new URL(opts.rootPath).host of task i
RootHost(i) == Host(NewURL(opts[i].rootPath, NoUrl))

\* C23: a child task is crawled exactly when recurse is set, its URL starts
\* with the rootPath string and its host is the host of rootPath, and it has
\* the rootPath of its parent; so every crawled task is on the host of its
\* rootPath, and without recurse only starting URLs have their links
\* extracted.
C23_ChildCrawlSameHost ==
  /\ \A i \in Tasks : IsChild(i) =>
       /\ opts[i].crawl <=> /\ options.recurse
                            /\ StartsWith(opts[i].url, opts[i].rootPath)
                            /\ Host(opts[i].url) = RootHost(i)
       /\ \E j \in Tasks : /\ j < i /\ opts[j].url = opts[i].parent
                            /\ opts[j].rootPath = opts[i].rootPath
  /\ \A i \in Tasks :
       (opts[i].crawl \/ i \in extracted) => Host(opts[i].url) = RootHost(i)
  /\ ~options.recurse => \A i \in extracted : ~IsChild(i)

\* with recurse a page has given a child on its own host, which is crawled,
\* and a child whose URL starts with rootPath on another host, which is not
C23_Witness ==
  /\ options.recurse
  /\ \E i, j \in Tasks :
       /\ IsChild(i) /\ IsChild(j) /\ opts[i].parent = opts[j].parent
       /\ opts[i].crawl /\ i \in extracted
       /\ StartsWith(opts[j].url, opts[j].rootPath) /\ Host(opts[j].url) # RootHost(j)
       /\ ~opts[j].crawl /\ pc[j] = "done"

\* ----------------------------------------------------------------- C24
\* C24: the children of one page are enqueued in the order in which their
\* links occur in the document, whatever elements and attributes bear them.
C24_ChildrenInDocumentOrder ==
  LET \* the places of the document of page where a link to u occurs
      Occurrences(u, page) ==
        { k \in 1..Len(Body(page)) :
            /\ Body(page)[k].tag \in linksAttr(Body(page)[k].attr)
            /\ normalizeLink(Body(page)[k].value, page) = u }
      \* the place of the first of them
      DocIndex(u, page) ==
        CHOOSE k \in Occurrences(u, page) : \A m \in Occurrences(u, page) : k <= m
  IN
  \A i, j \in Tasks :
    (IsChild(i) /\ IsChild(j) /\ opts[i].parent = opts[j].parent /\ i < j) =>
      DocIndex(opts[i].url, opts[i].parent) < DocIndex(opts[j].url, opts[j].parent)

\* ----------------------------------------------------------------- C25
\* the options pass processOptions and no path is an HTTP path
LocalRun == OptionsError(options) = "none" /\ StartsServer(options)

\* C25: when check starts the local server, no task exists before the server
\* listens, the server is destroyed when check has returned, and once it is
\* destroyed the queue is idle and no request is in flight.
C25_ServerAroundTheCrawl ==
  /\ server # "none" <=> (LocalRun /\ phase \in {"starting", "running", "returned"})
  /\ server = "starting" <=> phase = "starting"
  /\ server \in {"none", "starting"} /\ LocalRun =>
       opts = <<>> /\ queue = <<>> /\ cache = {} /\ requests = {}
  /\ (phase = "running" /\ LocalRun) => server = "listening"
  /\ (phase = "returned" /\ LocalRun) => server = "destroyed"
  /\ server = "destroyed" =>
       phase = "returned" /\ QueueIdle /\ \A i \in Tasks : ~InFlight(i) /\ pc[i] \in {"done", "failed"}

\* check has returned from a crawl of local files: the server is destroyed
\* and the results of the crawl are there
C25_Witness ==
  /\ LocalRun /\ phase = "returned" /\ server = "destroyed"
  /\ ret.links # <<>> /\ requests # {}

\* ----------------------------------------------------------------- C26
HasFragment(u) == IndexOf(u, "#") # 0
\* the part of a URL string before its fragment
BeforeFragment(u) == SubSeq(u, 1, IF HasFragment(u) THEN IndexOf(u, "#") - 1 ELSE Len(u))
\* the link-bearing elements of the document of page
LinkElements(page) ==
  LET body == Body(page) IN
  { k \in 1..Len(body) : body[k].tag \in linksAttr(body[k].attr) /\ body[k].value # <<>> }
\* the links of two elements of page resolve and differ in their fragment only
SameButFragment(page, a, b) ==
  LET body == Body(page)
      ua == NewURL(body[a].value, page)
      ub == NewURL(body[b].value, page)
  IN  /\ a # b
      /\ ua # NoUrl
      /\ ub # NoUrl
      /\ ua # ub
      /\ BeforeFragment(ua) = BeforeFragment(ub)
\* the pages of the web that have a document
Pages == {RootUrl, PUrl, XUrl, KUrl}
\* <<page, a, b>>: the elements a and b of page hold such a pair of links
FragmentTwins ==
  UNION { { <<page, a, b>> : a, b \in LinkElements(page) } : page \in Pages }
    \cap { t \in Pages \X Nat \X Nat : SameButFragment(t[1], t[2], t[3]) }
ChildrenFor(u) == { j \in Tasks : IsChild(j) /\ opts[j].url = u }

\* C26: a link that getLinks resolves against the base URL has no fragment,
\* so the URLs of child tasks, the cache entries made for them and the URLs
\* of their LinkResults have none; two links of a page that differ in the
\* fragment only give one child task (none when the URL is a starting URL)
\* and one LinkResult.
C26_FragmentFree ==
  /\ \A i \in extracted :
       LET page == opts[i].url
           body == Body(page)
       IN  \A k \in LinkElements(page) :
             NewURL(body[k].value, page) # NoUrl =>
               ~HasFragment(normalizeLink(body[k].value, page))
  /\ \A i \in Tasks : IsChild(i) => ~HasFragment(opts[i].url)
  /\ \A u \in cache : HasFragment(u) => u \in StartingUrls
  /\ \A k \in 1..Len(results) :
       (results[k].parent # NoUrl /\ NewURL(results[k].url, NoUrl) # NoUrl) =>
         ~HasFragment(results[k].url)
  /\ \A i \in extracted : opts[i].url \in Pages \/ Body(opts[i].url) = <<>>
  /\ \A i \in extracted : \A t \in FragmentTwins :
       t[1] = opts[i].url =>
         LET u == normalizeLink(Body(t[1])[t[2]].value, t[1]) IN
         /\ u = normalizeLink(Body(t[1])[t[3]].value, t[1])
         /\ Cardinality(ChildrenFor(u)) = (IF u \in StartingUrls THEN 0 ELSE 1)
         /\ Cardinality(ResultsFor(results, u)) <= 1
         /\ (\A j \in Tasks : opts[j].url = u => pc[j] = "done") =>
              Cardinality(ResultsFor(results, u)) = 1

\* a page with the links http://h/p#f and /p was extracted, and the one child
\* for http://h/p has its one result
C26_Witness ==
  \E i \in extracted : \E t \in FragmentTwins :
    /\ t[1] = opts[i].url
    /\ HasFragment(NewURL(Body(t[1])[t[2]].value, t[1]))
    /\ \E j \in ChildrenFor(PUrl) : pc[j] = "done"
    /\ Cardinality(ResultsFor(results, PUrl)) = 1

\* ----------------------------------------------------------------- C27
\* C27: in the object getConfig returns, a key has the value of its flag when
\* the flag is defined and is not an empty array, else the value of the config
\* file when a file was given and has the key, else the key is absent; the
\* file is read only when flags.config is set.
C27_FlagsOverConfigFile ==
  LET \* the flag is defined and is not an empty array
      FlagCounts(key) ==
        key \in DOMAIN flags /\ flags[key].kind # "undefined"
          /\ ~(flags[key].kind = "array" /\ flags[key].v = 0)
      \* a config file was named and holds the key
      FileHas(key) ==
        /\ "config" \in DOMAIN flags /\ flags["config"].kind = "string"
        /\ flags["config"].v # 0
        /\ configFile.ok /\ key \in DOMAIN configFile.map
  IN
  /\ cfgPhase = "returned" =>
       \A key \in Keys :
         IF FlagCounts(key) THEN key \in DOMAIN config /\ config[key] = flags[key]
         ELSE IF FileHas(key) THEN key \in DOMAIN config /\ config[key] = configFile.map[key]
         ELSE key \notin DOMAIN config
  /\ fileRead => ("config" \in DOMAIN flags /\ flags["config"].kind # "undefined")

\* getConfig has returned where the skip flag is an empty array, the recurse
\* flag is false and the file sets both keys
C27_Witness ==
  /\ cfgPhase = "returned" /\ fileRead
  /\ "skip" \in DOMAIN flags /\ flags["skip"] = [kind |-> "array", v |-> 0]
  /\ "recurse" \in DOMAIN flags /\ flags["recurse"] = [kind |-> "boolean", v |-> 0]
  /\ {"skip", "recurse"} \subseteq DOMAIN configFile.map
  /\ config["skip"] = configFile.map["skip"] /\ config["recurse"] = flags["recurse"]
  /\ configFile.map["recurse"] = [kind |-> "boolean", v |-> 1]

\* ----------------------------------------------------------------- C28
\* C28: when the queue is scheduled fairly, every request completes, the skip
\* predicate resolves and a URL is answered 429 with Retry-After finitely
\* often, the queue becomes idle and check returns.
C28_CheckReturns == <>(phase = "returned" /\ QueueIdle /\ ret.returned)

\* check has returned from a run in which a task was re-enqueued after a 429
\* with Retry-After as often as the server gave that answer
C28_Witness ==
  /\ phase = "returned" /\ QueueIdle
  /\ \E i \in Tasks : attempts[i] = OddBudget + 1 /\ pc[i] = "done"

\* ----------------------------------------------------------------- C29
\* C29: at most one crawl task for a URL is pending at any time: a task
\* stands in the queue at most once, never while it executes, and no two
\* pending tasks have the same URL.
C29_OnePendingTaskPerUrl ==
  LET \* task i is runnable, delayed or executing
      IsPending(i) == pc[i] \notin {"done", "failed"}
      \* how often task i stands in the queue, runnable or delayed
      QueueEntries(i) ==
        Cardinality({ k \in 1..Len(queue) : queue[k] = i }) +
        Cardinality({ k \in 1..Len(delayed) : delayed[k][1] = i })
  IN
  /\ \A i \in Tasks :
       /\ QueueEntries(i) <= 1
       /\ (i \in Executing(pc) \/ ~IsPending(i)) => QueueEntries(i) = 0
  /\ \A i, j \in Tasks :
       (IsPending(i) /\ IsPending(j) /\ opts[i].url = opts[j].url) => i = j

\* ----------------------------------------------------------------- C30
\* C30: a task that recorded a probe result has had its links extracted iff
\* its crawl flag is set and the content type of its response is HTML,
\* whatever the status; a crawled HTML page with a non-2xx status is recorded
\* BROKEN with that status, and each of its links has a BROKEN result of its
\* own or a task, whose result, once the task is done, has the page as parent.
C30_ExtractionIgnoresStatus ==
  LET \* the content type of the response recorded by task i is an HTML type
      HtmlResponse(i) ==
        res[i] # NoRes /\ res[i].contentType \in {"text/html", "application/xhtml+xml"}
      \* task i recorded the result of a probe
      Probed(i) == pc[i] = "done" /\ ladder[i] # <<>>
  IN
  /\ \A i \in Tasks :
       Probed(i) => (i \in extracted <=> (opts[i].crawl /\ HtmlResponse(i)))
  /\ \A i \in Tasks :
       (Probed(i) /\ opts[i].crawl /\ HtmlResponse(i) /\ ~Is2xx(res[i].status)) =>
         /\ \A k \in ResultsOf(i) :
              results[k].state = BROKEN /\ results[k].status = res[i].status
         /\ \A n \in LinkElements(opts[i].url) :
              LET u == normalizeLink(Body(opts[i].url)[n].value, opts[i].url) IN
              \/ \E k \in 1..Len(results) :
                   results[k].url = u /\ results[k].parent = opts[i].url /\ results[k].state = BROKEN
              \/ \E j \in Tasks : opts[j].url = u
  /\ \A j \in Tasks :
       (IsChild(j) /\ pc[j] = "done") =>
         /\ \E i \in extracted : opts[i].url = opts[j].parent
         /\ \A k \in ResultsOf(j) : results[k].parent = opts[j].parent
         /\ ResultsOf(j) # {}

\* the starting page was answered 300 text/html: it is BROKEN, and its link
\* /p has an OK result with the page as parent
C30_Witness ==
  /\ phase = "returned"
  /\ \E i \in extracted :
       /\ opts[i].url = RootUrl /\ res[i].status = 300
       /\ \E k \in ResultsOf(i) : results[k].state = BROKEN /\ results[k].status = 300
  /\ \E k \in 1..Len(results) :
       results[k].url = PUrl /\ results[k].parent = RootUrl /\ results[k].state = OK
====
